---- MODULE Spec2Model ----
(***************************************************************************)
(* Combined-Cycle-Gas-Turbine: the CombinedCycleGasTurbine class of        *)
(* main.py as a state machine.                                             *)
(*                                                                         *)
(* The object is the variable self, a function from attribute names to     *)
(* values; every method of the class is one action that performs the       *)
(* method's assignments in program order.  Floating-point numbers are      *)
(* exact rationals <<numerator, denominator>> (denominator > 0, lowest     *)
(* terms); the values numpy produces for a division by zero are the        *)
(* pairs Inf = <<1, 0>>, NegInf = <<-1, 0>> and NaN = <<0, 0>>.            *)
(***************************************************************************)
EXTENDS Integers, Sequences, FiniteSets, TLC

VARIABLES
    self,      \* attributes of the CombinedCycleGasTurbine instance
    kwargs,    \* keyword arguments the caller passed to __init__
    last,      \* the method that ran last
    raised,    \* exception that left the last method ("None" if it returned)
    returned,  \* value the last method returned to its caller
    emitted    \* logging.warning records written by the last calc_states

vars == <<self, kwargs, last, raised, returned, emitted>>

----------------------------------------------------------------------------
(* Float arithmetic on exact rationals.                                    *)

Abs(n) == IF n < 0 THEN 0 - n ELSE n

RECURSIVE GCD(_, _)
GCD(a, b) == IF b = 0 THEN a ELSE GCD(b, a % b)

LCM(a, b) == (a \div GCD(a, b)) * b

\* n/d in lowest terms with a positive denominator (d # 0)
Reduce(n, d, g) ==
    IF d < 0 THEN <<0 - (n \div g), 0 - (d \div g)>>
    ELSE <<n \div g, d \div g>>

R(n, d) == Reduce(n, d, GCD(Abs(n), Abs(d)))

I(n) == <<n, 1>>

Inf == <<1, 0>>
NegInf == <<0 - 1, 0>>
NaN == <<0, 0>>

IsNum(v) == v[2] # 0

RNeg(a) == <<0 - a[1], a[2]>>

\* a + b over the common denominator l
RAddOver(a, b, l) == R(a[1] * (l \div a[2]) + b[1] * (l \div b[2]), l)

RAdd(a, b) == RAddOver(a, b, LCM(a[2], b[2]))

RSub(a, b) == RAdd(a, RNeg(b))

\* a * b with the cross factors g1 = (a[1], b[2]), g2 = (b[1], a[2]) removed
RMulOver(a, b, g1, g2) ==
    <<(a[1] \div g1) * (b[1] \div g2), (a[2] \div g2) * (b[2] \div g1)>>

RMul(a, b) == RMulOver(a, b, GCD(Abs(a[1]), b[2]), GCD(Abs(b[1]), a[2]))

RInv(a) == IF a[1] < 0 THEN <<0 - a[2], 0 - a[1]>> ELSE <<a[2], a[1]>>

\* a / b for b # 0
RDiv(a, b) == RMul(a, RInv(b))

RSign(a) == IF a[1] < 0 THEN 0 - 1 ELSE IF a[1] = 0 THEN 0 ELSE 1

\* sign of a/b - c/d for b, d > 0, by continued fractions (no products)
RECURSIVE Cmp(_, _, _, _)
Cmp(a, b, c, d) ==
    IF a \div b < c \div d THEN 0 - 1
    ELSE IF a \div b > c \div d THEN 1
    ELSE IF a % b = 0 /\ c % d = 0 THEN 0
    ELSE IF a % b = 0 THEN 0 - 1
    ELSE IF c % d = 0 THEN 1
    ELSE 0 - Cmp(b, a % b, d, c % d)

RLt(a, b) == Cmp(a[1], a[2], b[1], b[2]) < 0
RLe(a, b) == Cmp(a[1], a[2], b[1], b[2]) <= 0
RGt(a, b) == RLt(b, a)
RGe(a, b) == RLe(b, a)

\* numpy true division: a zero divisor yields inf or nan instead of raising
NpDiv(a, b) ==
    IF b[1] # 0 THEN RDiv(a, b)
    ELSE IF a[1] > 0 THEN Inf
    ELSE IF a[1] < 0 THEN NegInf
    ELSE NaN

\* IEEE comparisons on extended values: every comparison with NaN is false
XLt(a, b) ==
    IF a = NaN \/ b = NaN THEN FALSE
    ELSE IF a = Inf \/ b = NegInf THEN FALSE
    ELSE IF a = NegInf \/ b = Inf THEN TRUE
    ELSE RLt(a, b)

XLe(a, b) ==
    IF a = NaN \/ b = NaN THEN FALSE
    ELSE IF a = b THEN TRUE
    ELSE XLt(a, b)

----------------------------------------------------------------------------
(* Class constants _DEF_* (main.py 33-59) and their attribute names.       *)

_DEF_P_5 == I(101325)
_DEF_T_5 == R(29315, 100)
_DEF_P_1 == I(4053)
_DEF_T_1 == R(2979, 10)
_DEF_GAS_FLUID == "air"
_DEF_M_DOT_GAS == R(10559, 10)
_DEF_STEAM_FLUID == "water"
_DEF_M_DOT_STEAM == R(1503, 10)
_DEF_Q_67 == I(1045300000)
_DEF_R_P_COMP == I(23)
_DEF_R_P_TURB == R(209186, 10000)
_DEF_R_P_PUMP == I(1000)
_DEF_N_C_GAS == R(85, 100)
_DEF_N_T_GAS == R(85, 100)
_DEF_N_C_STEAM == R(85, 100)
_DEF_N_T_STEAM == R(85, 100)
_DEF_HRSG_F == I(1)
_DEF_HRSG_UA == I(5000000)
_DEF_MAX_T7 == I(1873)
_DEF_MAX_T3 == I(893)
_DEF_MIN_X4 == R(9, 10)
_DEF_MAX_P_HRSG_STEAM == I(20265000)
_DEF_MIN_P_COND == R(6180825, 10000)

\* the class dictionary's _DEF_ entries in definition order, each name with
\* the "_DEF_" prefix removed and spelt as its characters
def_items ==
    << <<<<"P","_","5">>, _DEF_P_5>>,
       <<<<"T","_","5">>, _DEF_T_5>>,
       <<<<"P","_","1">>, _DEF_P_1>>,
       <<<<"T","_","1">>, _DEF_T_1>>,
       <<<<"G","A","S","_","F","L","U","I","D">>, _DEF_GAS_FLUID>>,
       <<<<"M","_","D","O","T","_","G","A","S">>, _DEF_M_DOT_GAS>>,
       <<<<"S","T","E","A","M","_","F","L","U","I","D">>, _DEF_STEAM_FLUID>>,
       <<<<"M","_","D","O","T","_","S","T","E","A","M">>, _DEF_M_DOT_STEAM>>,
       <<<<"Q","_","6","7">>, _DEF_Q_67>>,
       <<<<"R","_","P","_","C","O","M","P">>, _DEF_R_P_COMP>>,
       <<<<"R","_","P","_","T","U","R","B">>, _DEF_R_P_TURB>>,
       <<<<"R","_","P","_","P","U","M","P">>, _DEF_R_P_PUMP>>,
       <<<<"N","_","C","_","G","A","S">>, _DEF_N_C_GAS>>,
       <<<<"N","_","T","_","G","A","S">>, _DEF_N_T_GAS>>,
       <<<<"N","_","C","_","S","T","E","A","M">>, _DEF_N_C_STEAM>>,
       <<<<"N","_","T","_","S","T","E","A","M">>, _DEF_N_T_STEAM>>,
       <<<<"H","R","S","G","_","F">>, _DEF_HRSG_F>>,
       <<<<"H","R","S","G","_","U","A">>, _DEF_HRSG_UA>>,
       <<<<"M","A","X","_","T","7">>, _DEF_MAX_T7>>,
       <<<<"M","A","X","_","T","3">>, _DEF_MAX_T3>>,
       <<<<"M","I","N","_","X","4">>, _DEF_MIN_X4>>,
       <<<<"M","A","X","_","P","_","H","R","S","G","_","S","T","E","A","M">>,
         _DEF_MAX_P_HRSG_STEAM>>,
       <<<<"M","I","N","_","P","_","C","O","N","D">>, _DEF_MIN_P_COND>> >>

Digits == {"0", "1", "2", "3", "4", "5", "6", "7", "8", "9"}

\* str.lower on one character
lower(c) ==
    CASE c = "A" -> "a" [] c = "B" -> "b" [] c = "C" -> "c" [] c = "D" -> "d"
      [] c = "E" -> "e" [] c = "F" -> "f" [] c = "G" -> "g" [] c = "H" -> "h"
      [] c = "I" -> "i" [] c = "L" -> "l" [] c = "M" -> "m" [] c = "N" -> "n"
      [] c = "O" -> "o" [] c = "P" -> "p" [] c = "Q" -> "q" [] c = "R" -> "r"
      [] c = "S" -> "s" [] c = "T" -> "t" [] c = "U" -> "u" [] c = "X" -> "x"
      [] OTHER -> c

\* re.match(r"(T|Q)_\d+", key): anchored at the start of the key only
re_match_TQ(key) ==
    /\ Len(key) >= 3
    /\ key[1] \in {"T", "Q"}
    /\ key[2] = "_"
    /\ key[3] \in Digits

RECURSIVE Join(_)
Join(cs) == IF cs = <<>> THEN "" ELSE Head(cs) \o Join(Tail(cs))

\* the attribute name attrs_from_kwargs_or_default derives from a _DEF_ name
attr_key(key) ==
    IF re_match_TQ(key) THEN Join(key)
    ELSE Join([i \in 1..Len(key) |-> lower(key[i])])

\* attrs_from_kwargs_or_default: the attributes after the loop over def_items
attrs_from_kwargs_or_default(kw) ==
    [k \in {attr_key(def_items[i][1]) : i \in 1..Len(def_items)} |->
        IF k \in DOMAIN kw THEN kw[k]
        ELSE def_items[CHOOSE j \in 1..Len(def_items) :
                           attr_key(def_items[j][1]) = k][2]]

----------------------------------------------------------------------------
(* The fluid property provider.  PropsSI is CoolProp's, not this           *)
(* repository's; the class only requires a pure function of two state      *)
(* variables and a fluid name.  It is stood in for by two piecewise-linear *)
(* fluids: "air", a single-phase gas, and "water", with a subcooled, a     *)
(* two-phase and a superheated region separated by the saturation line.    *)
(* Pressures enter as multiples a of one atmosphere.                       *)

atm(p) == RDiv(p, I(101325))

air_H_PT(a, T) == RMul(I(2), T)
air_S_PT(a, T) == RSub(RDiv(T, I(250)), RMul(<<2, 5>>, a))
air_T_PH(a, h) == RDiv(h, I(2))
air_T_PS(a, s) == RAdd(RMul(I(250), s), RMul(I(100), a))

\* the temperature of the air state given by (pressure, k = v)
air_T(k, v, a) ==
    CASE k = "T" -> v
      [] k = "H" -> air_T_PH(a, v)
      [] k = "S" -> air_T_PS(a, v)

air_out(out, a, T) ==
    CASE out = "T" -> T
      [] out = "H" -> air_H_PT(a, T)
      [] out = "S" -> air_S_PT(a, T)

water_Tsat(a) == RAdd(I(300), RMul(I(10), a))

\* the saturation line of water at pressure a, boiling at Tsat
water_sat(a, Tsat) ==
    [a    |-> a,
     Tsat |-> Tsat,
     hf   |-> RMul(I(4), Tsat),
     hg   |-> RAdd(RMul(I(4), Tsat), I(2000)),
     sfg  |-> RSub(I(6), RMul(I(2), a)),
     sf   |-> RSub(RDiv(Tsat, I(100)), RDiv(a, I(100))),
     sg   |-> RAdd(RSub(RDiv(Tsat, I(100)), RDiv(a, I(100))),
                   RSub(I(6), RMul(I(2), a)))]

water_H_PT(w, T) ==
    IF RLe(T, w.Tsat) THEN RMul(I(4), T)
    ELSE RAdd(w.hg, RMul(I(2), RSub(T, w.Tsat)))

water_S_PT(w, T) ==
    IF RLe(T, w.Tsat) THEN RSub(RDiv(T, I(100)), RDiv(w.a, I(100)))
    ELSE RAdd(w.sg, RDiv(RSub(T, w.Tsat), I(200)))

\* quality is -1 away from the saturation line
water_Q_PT(w, T) == IF T = w.Tsat THEN I(0) ELSE I(0 - 1)

water_T_PH(w, h) ==
    IF RLt(h, w.hf) THEN RDiv(h, I(4))
    ELSE IF RLe(h, w.hg) THEN w.Tsat
    ELSE RAdd(w.Tsat, RDiv(RSub(h, w.hg), I(2)))

water_Q_PH(w, h) ==
    IF RLt(h, w.hf) \/ RGt(h, w.hg) THEN I(0 - 1)
    ELSE RDiv(RSub(h, w.hf), I(2000))

water_S_PH(w, h) ==
    IF RLt(h, w.hf) \/ RGt(h, w.hg) THEN water_S_PT(w, water_T_PH(w, h))
    ELSE RAdd(w.sf, RMul(w.sfg, water_Q_PH(w, h)))

water_H_PS(w, s) ==
    IF RLt(s, w.sf) THEN RMul(I(400), RAdd(s, RDiv(w.a, I(100))))
    ELSE IF RLe(s, w.sg)
    THEN RAdd(w.hf, RMul(I(2000), RDiv(RSub(s, w.sf), w.sfg)))
    ELSE RAdd(w.hg, RMul(I(400), RSub(s, w.sg)))

water_out(out, k, v, w) ==
    CASE k = "T" /\ out = "H" -> water_H_PT(w, v)
      [] k = "T" /\ out = "S" -> water_S_PT(w, v)
      [] k = "T" /\ out = "Q" -> water_Q_PT(w, v)
      [] k = "H" /\ out = "T" -> water_T_PH(w, v)
      [] k = "H" /\ out = "S" -> water_S_PH(w, v)
      [] k = "H" /\ out = "Q" -> water_Q_PH(w, v)
      [] k = "S" /\ out = "H" -> water_H_PS(w, v)
      [] k = "S" /\ out = "T" -> water_T_PH(w, water_H_PS(w, v))
      [] k = "Q" /\ out = "T" -> w.Tsat
      [] k = "Q" /\ out = "H" -> IF v = I(0) THEN w.hf ELSE w.hg

\* the property out of the fluid at pressure a and k = v
fluid_out(out, k, v, a, fluid) ==
    IF fluid = "air" THEN air_out(out, a, air_T(k, v, a))
    ELSE water_out(out, k, v, water_sat(a, water_Tsat(a)))

\* PropsSI(output, name1, value1, name2, value2, fluid); one of the two
\* names is "P"
PropsSI(out, n1, v1, n2, v2, fluid) ==
    fluid_out(out,
              IF n1 = "P" THEN n2 ELSE n1,
              IF n1 = "P" THEN v2 ELSE v1,
              atm(IF n1 = "P" THEN v1 ELSE v2),
              fluid)

----------------------------------------------------------------------------
(* Specific exergy (main.py 698-762).                                      *)

\* default arguments p_0 = 101325, T_0 = 298.15 of both exergy methods
p_0 == I(101325)
T_0 == <<5963, 20>>

\* b = h - T * s, the availability function as the two methods write it
availability(h, T, s) == RSub(h, RMul(T, s))

\* lines 715-718: the fluid of point n
point_fluid(s, n) ==
    IF n \in {5, 6, 7, 8, 9} THEN s["gas_fluid"] ELSE s["steam_fluid"]

\* ex = b - b_0 for the dead state of the fluid
exergy_above_dead_state(b, fluid) ==
    RSub(b, availability(PropsSI("H", "T", T_0, "P", p_0, fluid), T_0,
                         PropsSI("S", "T", T_0, "P", p_0, fluid)))

\* specific_exergy_at_point(n) on the attributes s: b = h - T_0 * s
specific_exergy_at_point(s, n) ==
    exergy_above_dead_state(
        availability(s["h_" \o ToString(n)], T_0, s["s_" \o ToString(n)]),
        point_fluid(s, n))

\* specific_exergy_at_state(p, T, fluid): line 758 is b = h - T * s
specific_exergy_at_state(p, T, fluid) ==
    exergy_above_dead_state(
        availability(PropsSI("H", "T", T, "P", p, fluid), T,
                     PropsSI("S", "T", T, "P", p, fluid)),
        fluid)

----------------------------------------------------------------------------
(* calc_states (main.py 133-276).  Every operator takes the attributes s   *)
(* and yields them after a run of assignments; a block yields the          *)
(* attributes and the exception that stopped it, if any.  A Python float   *)
(* division by 0 raises ZeroDivisionError and leaves the attributes        *)
(* assigned so far.                                                        *)

Ok(s) == [s |-> s, exc |-> "None"]
Raise(s, e) == [s |-> s, exc |-> e]

\* run the next block unless an exception is already propagating
Then(r, Block(_)) == IF r.exc # "None" THEN r ELSE Block(r.s)

\* lines 162-164
compressor_inlet(s) ==
    [p_6 |-> RMul(s["p_5"], s["r_p_comp"]),
     h_5 |-> PropsSI("H", "P", s["p_5"], "T", s["T_5"], s["gas_fluid"]),
     s_5 |-> PropsSI("S", "P", s["p_5"], "T", s["T_5"], s["gas_fluid"])] @@ s

\* lines 165-167
compressor_ideal(s) ==
    [ex_5 |-> specific_exergy_at_point(s, 5),
     h_6s |-> PropsSI("H", "P", s["p_6"], "S", s["s_5"], s["gas_fluid"]),
     T_6s |-> PropsSI("T", "P", s["p_6"], "S", s["s_5"], s["gas_fluid"])] @@ s

\* line 168
compressor_h_6(s) ==
    [h_6 |-> RAdd(s["h_5"], RDiv(RSub(s["h_6s"], s["h_5"]), s["n_c_gas"]))]
        @@ s

\* lines 169-170
compressor_outlet(s) ==
    [s_6 |-> PropsSI("S", "P", s["p_6"], "H", s["h_6"], s["gas_fluid"]),
     T_6 |-> PropsSI("T", "P", s["p_6"], "H", s["h_6"], s["gas_fluid"])] @@ s

\* line 171 with the exergy taken at the ideal outlet 6s
compressor_ex_6_ideal(s) ==
    [ex_6 |-> exergy_above_dead_state(
                  availability(s["h_6s"], T_0, s["s_5"]), s["gas_fluid"])]
        @@ s

\* line 171
compressor_ex_6(s) == [ex_6 |-> specific_exergy_at_point(s, 6)] @@ s

\* lines 168-171, the division by n_c_gas first
compressor_actual(s) ==
    IF s["n_c_gas"][1] = 0 THEN Raise(s, "ZeroDivisionError")
    ELSE Ok(compressor_ex_6(compressor_outlet(compressor_h_6(s))))

\* lines 161-171: gas compressor outlet conditions
gas_compressor(s) == compressor_actual(compressor_ideal(compressor_inlet(s)))

\* line 174
combustor_p_7(s) == [p_7 |-> s["p_6"]] @@ s

\* line 175
combustor_h_7(s) ==
    [h_7 |-> RAdd(s["h_6"], RDiv(s["Q_67"], s["m_dot_gas"]))] @@ s

\* lines 176-177
combustor_outlet(s) ==
    [T_7 |-> PropsSI("T", "P", s["p_7"], "H", s["h_7"], s["gas_fluid"]),
     s_7 |-> PropsSI("S", "P", s["p_7"], "H", s["h_7"], s["gas_fluid"])] @@ s

\* line 178
combustor_ex_7(s) == [ex_7 |-> specific_exergy_at_point(s, 7)] @@ s

\* lines 175-178, the division by m_dot_gas first
combustor_heated(s) ==
    IF s["m_dot_gas"][1] = 0 THEN Raise(s, "ZeroDivisionError")
    ELSE Ok(combustor_ex_7(combustor_outlet(combustor_h_7(s))))

\* lines 173-178: combustion chamber outlet conditions
combustor(s) == combustor_heated(combustor_p_7(s))

\* line 181
turbine_p_8(s) == [p_8 |-> RDiv(s["p_7"], s["r_p_turb"])] @@ s

\* lines 182-183
turbine_ideal(s) ==
    [h_8s |-> PropsSI("H", "P", s["p_8"], "S", s["s_7"], s["gas_fluid"]),
     T_8s |-> PropsSI("T", "P", s["p_8"], "S", s["s_7"], s["gas_fluid"])] @@ s

\* line 184
turbine_h_8(s) ==
    [h_8 |-> RSub(s["h_7"], RMul(RSub(s["h_7"], s["h_8s"]), s["n_t_gas"]))]
        @@ s

\* lines 185-186
turbine_outlet(s) ==
    [s_8 |-> PropsSI("S", "P", s["p_8"], "H", s["h_8"], s["gas_fluid"]),
     T_8 |-> PropsSI("T", "P", s["p_8"], "H", s["h_8"], s["gas_fluid"])] @@ s

\* line 187
turbine_ex_8(s) == [ex_8 |-> specific_exergy_at_point(s, 8)] @@ s

\* lines 180-187: gas turbine outlet conditions
gas_turbine(s) ==
    IF s["r_p_turb"][1] = 0 THEN Raise(s, "ZeroDivisionError")
    ELSE Ok(turbine_ex_8(turbine_outlet(turbine_h_8(turbine_ideal(
                turbine_p_8(s))))))

\* lines 190-192
pump_inlet(s) ==
    [h_1 |-> PropsSI("H", "P", s["p_1"], "T", s["T_1"], s["steam_fluid"]),
     s_1 |-> PropsSI("S", "P", s["p_1"], "T", s["T_1"], s["steam_fluid"]),
     x_1 |-> PropsSI("Q", "P", s["p_1"], "T", s["T_1"], s["steam_fluid"])]
        @@ s

\* lines 193-194 with the pump outlet pressure written over p_1 as well
pump_p_2_in_place(s) ==
    [ex_1 |-> specific_exergy_at_point(s, 1),
     p_2 |-> RMul(s["p_1"], s["r_p_pump"]),
     p_1 |-> RMul(s["p_1"], s["r_p_pump"])] @@ s

\* lines 193-194
pump_p_2(s) ==
    [ex_1 |-> specific_exergy_at_point(s, 1),
     p_2 |-> RMul(s["p_1"], s["r_p_pump"])] @@ s

\* lines 195-196
pump_ideal(s) ==
    [h_2s |-> PropsSI("H", "P", s["p_2"], "S", s["s_1"], s["steam_fluid"]),
     T_2s |-> PropsSI("T", "P", s["p_2"], "S", s["s_1"], s["steam_fluid"])]
        @@ s

\* line 197 with the efficiency multiplying the ideal rise, as at a turbine
pump_h_2_multiplied(s) ==
    [h_2 |-> RAdd(s["h_1"], RMul(RSub(s["h_2s"], s["h_1"]), s["n_c_steam"]))]
        @@ s

\* line 197
pump_h_2(s) ==
    [h_2 |-> RAdd(s["h_1"], RDiv(RSub(s["h_2s"], s["h_1"]), s["n_c_steam"]))]
        @@ s

\* lines 198-200
pump_outlet(s) ==
    [s_2 |-> PropsSI("S", "P", s["p_2"], "H", s["h_2"], s["steam_fluid"]),
     T_2 |-> PropsSI("T", "P", s["p_2"], "H", s["h_2"], s["steam_fluid"]),
     x_2 |-> PropsSI("Q", "P", s["p_2"], "H", s["h_2"], s["steam_fluid"])]
        @@ s

\* line 201
pump_ex_2(s) == [ex_2 |-> specific_exergy_at_point(s, 2)] @@ s

\* lines 197-201, the division by n_c_steam first
pump_actual(s) ==
    IF s["n_c_steam"][1] = 0 THEN Raise(s, "ZeroDivisionError")
    ELSE Ok(pump_ex_2(pump_outlet(pump_h_2(s))))

\* lines 189-201: steam pump outlet conditions
steam_pump(s) == pump_actual(pump_ideal(pump_p_2(pump_inlet(s))))

\* lines 161-201: everything calc_states does before it calls fsolve
before_fsolve(s) ==
    Then(Then(Then(gas_compressor(s), combustor), gas_turbine), steam_pump)

\* line 217-218: the seed handed to fsolve
initial_guess(s) ==
    << RMul(RMul(s["m_dot_gas"], RSub(s["h_8"], s["h_5"])), <<3, 4>>),
       RMul(s["T_2"], <<5, 2>>),
       RAdd(RMul(s["T_5"], <<3, 4>>), RMul(s["T_8"], <<1, 4>>)) >>

\* lines 213-214: the two energy-balance residuals of hrsg_equations
hrsg_eq2(s, v) ==
    RAdd(RSub(PropsSI("H", "P", s["p_8"], "T", v[3], s["gas_fluid"]), s["h_8"]),
         RDiv(v[1], s["m_dot_gas"]))

hrsg_eq3(s, v) ==
    RSub(RSub(PropsSI("H", "P", s["p_2"], "T", v[2], s["steam_fluid"]),
              s["h_2"]),
         RDiv(v[1], s["m_dot_steam"]))

\* whether q lies strictly between the geometric and the arithmetic mean of
\* the approaches a and b, which have one sign
between_means(a, b, q) ==
    /\ RSign(q) = RSign(a)
    /\ RLt(RMul(a, b), RMul(q, q))
    /\ RLt(RMul(I(4), RMul(q, q)), RMul(RAdd(a, b), RAdd(a, b)))

\* whether Q_23 = fua * LMTD(a, b) can hold
lmtd_can_match(Q_23, fua, a, b) ==
    /\ RSign(a) * RSign(b) = 1
    /\ a # b
    /\ IF fua[1] = 0 THEN Q_23[1] = 0
       ELSE between_means(a, b, RDiv(Q_23, fua))

\* line 212: eq1 = Q_23 - F*UA*LMTD(T_8 - T_3, T_9 - T_2).  The logarithm is
\* not rational; eq1 can be 0 only where the LMTD is defined (both approaches
\* of one sign and different) and Q_23 / (F*UA) lies strictly between their
\* geometric and arithmetic means, which is what this predicate decides.
hrsg_eq1_can_vanish(s, v) ==
    lmtd_can_match(v[1], RMul(s["hrsg_f"], s["hrsg_ua"]),
                   RSub(s["T_8"], v[2]), RSub(v[3], s["T_2"]))

\* the gas outlet temperature that zeroes eq2 for the duty Q_23
energy_root_T_9(s, Q_23) ==
    PropsSI("T", "P", s["p_8"], "H",
            RSub(s["h_8"], RDiv(Q_23, s["m_dot_gas"])), s["gas_fluid"])

\* the duty that zeroes eq3 for the steam outlet temperature T_3
energy_root_Q_23(s, T_3) ==
    RMul(s["m_dot_steam"],
         RSub(PropsSI("H", "P", s["p_2"], "T", T_3, s["steam_fluid"]),
              s["h_2"]))

\* a triple that zeroes eq2 and eq3 for the steam outlet temperature T_3
energy_root(s, T_3) ==
    <<energy_root_Q_23(s, T_3), T_3,
      energy_root_T_9(s, energy_root_Q_23(s, T_3))>>

\* number of superheat levels (of 100 K) tried as steam outlet temperature
MaxSuperheat == 2

\* line 219: what fsolve(hrsg_equations, initial_guess, xtol=1e-6) may
\* return.  scipy returns the last iterate whether or not it converged and
\* the call discards the status, so the result is either a root or, when the
\* iteration makes no progress, the seed.  The roots offered are the
\* energy-consistent triples at a few superheats, the one whose steam side
\* gains 12 K and stays below saturation, and the zero-duty triple
\* (Q_23 = 0, T_3 = T_2, T_9 = T_8).
fsolve(s) ==
    {initial_guess(s)}
        \cup {energy_root(s, RAdd(PropsSI("T", "P", s["p_2"], "Q", I(0),
                                          s["steam_fluid"]), I(100 * k)))
                : k \in 1..MaxSuperheat}
        \cup {energy_root(s, RAdd(s["T_2"], I(12)))}
        \cup {energy_root(s, s["T_2"])}

\* line 219: the unpacking of the array v that fsolve returned
hrsg_solution(s, v) == [Q_23 |-> v[1], T_3 |-> v[2], T_9 |-> v[3]] @@ s

\* lines 220-223 with the outlet enthalpies read from the fluid tables at the
\* temperatures fsolve returned, as hrsg_equations does at lines 213-214
hrsg_enthalpies_from_T(s) ==
    [h_3 |-> PropsSI("H", "P", s["p_2"], "T", s["T_3"], s["steam_fluid"]),
     h_9 |-> PropsSI("H", "P", s["p_8"], "T", s["T_9"], s["gas_fluid"]),
     p_3 |-> s["p_2"]] @@ s

\* lines 220-223
hrsg_enthalpies(s) ==
    [h_3 |-> RAdd(s["h_2"], RDiv(s["Q_23"], s["m_dot_steam"])),
     h_9 |-> RSub(s["h_8"], RDiv(s["Q_23"], s["m_dot_gas"])),
     p_3 |-> s["p_2"]] @@ s

\* lines 224-225
hrsg_steam_outlet(s) ==
    [s_3 |-> PropsSI("S", "P", s["p_3"], "T", s["T_3"], s["steam_fluid"]),
     x_3 |-> PropsSI("Q", "P", s["p_3"], "T", s["T_3"], s["steam_fluid"])]
        @@ s

\* lines 226-228
hrsg_gas_outlet(s) ==
    [ex_3 |-> specific_exergy_at_point(s, 3),
     Q_89 |-> RMul(I(0 - 1), s["Q_23"]),
     s_9 |-> PropsSI("S", "P", s["p_8"], "H", s["h_9"], s["gas_fluid"])] @@ s

\* lines 229-236; lmtd_hrsg, (dT_hot - dT_cold) / np.log(dT_hot / dT_cold),
\* is kept as its operands
hrsg_lmtd(s) ==
    [ex_9 |-> specific_exergy_at_point(s, 9),
     dT_hot_hrsg |-> RSub(s["T_8"], s["T_3"]),
     dT_cold_hrsg |-> RSub(s["T_9"], s["T_2"]),
     lmtd_hrsg |-> [dT_hot |-> RSub(s["T_8"], s["T_3"]),
                    dT_cold |-> RSub(s["T_9"], s["T_2"])]] @@ s

\* lines 219-236: the HRSG, for the array v that fsolve returned
hrsg(s, v) ==
    hrsg_lmtd(hrsg_gas_outlet(hrsg_steam_outlet(hrsg_enthalpies(
        hrsg_solution(s, v)))))

\* line 239
steam_turbine_p_4(s) == [p_4 |-> s["p_1"]] @@ s

\* lines 240-241
steam_turbine_ideal(s) ==
    [h_4s |-> PropsSI("H", "P", s["p_4"], "S", s["s_3"], s["steam_fluid"]),
     T_4s |-> PropsSI("T", "P", s["p_4"], "S", s["s_3"], s["steam_fluid"])]
        @@ s

\* line 242
steam_turbine_h_4(s) ==
    [h_4 |-> RSub(s["h_3"],
                  RMul(RSub(s["h_3"], s["h_4s"]), s["n_t_steam"]))] @@ s

\* lines 243-245
steam_turbine_outlet(s) ==
    [s_4 |-> PropsSI("S", "P", s["p_4"], "H", s["h_4"], s["steam_fluid"]),
     T_4 |-> PropsSI("T", "P", s["p_4"], "H", s["h_4"], s["steam_fluid"]),
     x_4 |-> PropsSI("Q", "P", s["p_4"], "H", s["h_4"], s["steam_fluid"])]
        @@ s

\* lines 246-249
condenser(s) ==
    [ex_4 |-> specific_exergy_at_point(s, 4),
     Q_14 |-> RMul(s["m_dot_steam"], RSub(s["h_4"], s["h_1"]))] @@ s

\* lines 238-249: steam turbine outlet conditions and condenser heat transfer
steam_turbine(s) ==
    condenser(steam_turbine_outlet(steam_turbine_h_4(steam_turbine_ideal(
        steam_turbine_p_4(s)))))

\* lines 219-249: everything between fsolve's return and the limit checks
after_fsolve(s, v) == steam_turbine(hrsg(s, v))

\* the limit checks written as one if/elif chain
check_limits_elif(s) ==
    IF RGt(s["T_7"], s["max_t7"]) THEN <<"Gas turbine inlet temperature">>
    ELSE IF RGt(s["T_3"], s["max_t3"])
    THEN <<"Steam turbine inlet temperature">>
    ELSE IF RLt(s["x_4"], s["min_x4"])
    THEN <<"Steam turbine outlet dryness fraction">>
    ELSE IF RGt(s["p_3"], s["max_p_hrsg_steam"])
    THEN <<"Steam pressure in HRSG">>
    ELSE IF RLt(s["p_4"], s["min_p_cond"]) THEN <<"Condenser pressure">>
    ELSE <<>>

\* lines 251-276: the logging.warning calls of the process-limit checks, in
\* program order
check_limits(s) ==
    (IF RGt(s["T_7"], s["max_t7"])
     THEN <<"Gas turbine inlet temperature">> ELSE <<>>)
    \o (IF RGt(s["T_3"], s["max_t3"])
        THEN <<"Steam turbine inlet temperature">> ELSE <<>>)
    \o (IF RLt(s["x_4"], s["min_x4"])
        THEN <<"Steam turbine outlet dryness fraction">> ELSE <<>>)
    \o (IF RGt(s["p_3"], s["max_p_hrsg_steam"])
        THEN <<"Steam pressure in HRSG">> ELSE <<>>)
    \o (IF RLt(s["p_4"], s["min_p_cond"])
        THEN <<"Condenser pressure">> ELSE <<>>)

----------------------------------------------------------------------------
(* calc_energy_exergy_balances (main.py 278-432).                          *)

\* Axes.pie raises ValueError for a negative wedge in current matplotlib
\* releases and draws it in older ones; wedges of lines 380 and 396-405
negative_wedge(s) ==
    \E w \in { s["W_total"],
               RMul(s["m_dot_gas"], RSub(s["h_9"], s["h_5"])),
               s["Q_14"],
               RMul(s["m_dot_gas"], RSub(s["ex_9"], s["ex_5"])),
               s["Ex_14"], s["W_56_loss"], s["W_78_loss"], s["hrsg_loss"],
               s["W_12_loss"], s["W_34_loss"] } : RSign(w) < 0

\* line 321
balance_W_56(s) ==
    [W_56 |-> RMul(s["m_dot_gas"], RSub(s["h_6"], s["h_5"]))] @@ s

\* line 323
balance_W_78(s) ==
    [W_78 |-> RMul(s["m_dot_gas"], RSub(s["h_7"], s["h_8"]))] @@ s

\* lines 325-327
balance_steam_work(s) ==
    [W_12 |-> RMul(s["m_dot_steam"], RSub(s["h_2"], s["h_1"])),
     W_34 |-> RMul(s["m_dot_steam"], RSub(s["h_3"], s["h_4"]))] @@ s

\* lines 330-331
balance_powers(s) ==
    [W_gas |-> RSub(s["W_78"], s["W_56"]),
     W_steam |-> RSub(s["W_34"], s["W_12"])] @@ s

\* lines 332-340
balance_exergies(s) ==
    [W_total |-> RAdd(s["W_gas"], s["W_steam"]),
     Ex_67 |-> RMul(s["m_dot_gas"], RSub(s["ex_7"], s["ex_6"])),
     Ex_14 |-> RMul(s["m_dot_steam"], RSub(s["ex_4"], s["ex_1"])),
     Ex_23 |-> RMul(s["m_dot_steam"], RSub(s["ex_3"], s["ex_2"]))] @@ s

\* lines 342-359: losses of available power
balance_losses(s) ==
    [W_56_loss |-> RMul(RMul(s["m_dot_gas"], I(298)),
                        RSub(s["s_6"], s["s_5"])),
     W_78_loss |-> RMul(RMul(s["m_dot_gas"], I(298)),
                        RSub(s["s_8"], s["s_7"])),
     hrsg_loss |->
         RMul(I(298),
              RAdd(RMul(s["m_dot_steam"], RSub(s["s_3"], s["s_2"])),
                   RMul(s["m_dot_gas"], RSub(s["s_9"], s["s_8"])))),
     gas_exhaust_loss |->
         RMul(s["m_dot_gas"],
              RSub(s["ex_9"],
                   specific_exergy_at_state(I(101325), s["T_9"],
                                            s["gas_fluid"]))),
     W_12_loss |-> RMul(RMul(s["m_dot_steam"], I(298)),
                        RSub(s["s_2"], s["s_1"])),
     W_34_loss |-> RMul(RMul(s["m_dot_steam"], I(298)),
                        RSub(s["s_4"], s["s_3"]))] @@ s

\* lines 325-359: powers, exergy flows and losses of available power
balance_terms(s) ==
    balance_losses(balance_exergies(balance_powers(balance_steam_work(s))))

\* lines 363-369: thermal and maximum-possible thermal efficiencies; the
\* steam-leg operands are numpy floats
thermal_efficiencies(s) ==
    [eta_gas_th |-> RDiv(s["W_gas"], s["Q_67"]),
     eta_steam_th |-> NpDiv(s["W_steam"], s["Q_23"]),
     eta_th |-> RDiv(s["W_total"], s["Q_67"]),
     eta_gas_th_max |-> RDiv(s["Ex_67"], s["Q_67"]),
     eta_steam_th_max |-> NpDiv(s["Ex_23"], s["Q_23"]),
     eta_th_max |-> RDiv(s["Ex_67"], s["Q_67"])] @@ s

\* lines 371-373: exergy efficiencies.  W_gas and Ex_67 are Python floats,
\* whose division by 0 raises
exergy_efficiencies(s) ==
    IF s["Ex_67"][1] = 0 THEN Raise(s, "ZeroDivisionError")
    ELSE Ok([eta_gas_ex |-> RDiv(s["W_gas"], s["Ex_67"]),
             eta_steam_ex |-> NpDiv(s["W_steam"], s["Ex_23"]),
             eta_ex |-> RDiv(s["W_total"], s["Ex_67"])] @@ s)

\* the efficiencies with the divisors of the thermal and the exergy
\* efficiency exchanged
efficiencies_swapped(s) ==
    IF s["Q_67"][1] = 0 \/ s["Ex_67"][1] = 0
    THEN Raise(s, "ZeroDivisionError")
    ELSE Ok([eta_gas_th |-> RDiv(s["W_gas"], s["Ex_67"]),
             eta_steam_th |-> NpDiv(s["W_steam"], s["Ex_23"]),
             eta_th |-> RDiv(s["W_total"], s["Ex_67"]),
             eta_gas_th_max |-> RDiv(s["Ex_67"], s["Q_67"]),
             eta_steam_th_max |-> NpDiv(s["Ex_23"], s["Q_23"]),
             eta_th_max |-> RDiv(s["Ex_67"], s["Q_67"]),
             eta_gas_ex |-> RDiv(s["W_gas"], s["Q_67"]),
             eta_steam_ex |-> NpDiv(s["W_steam"], s["Q_23"]),
             eta_ex |-> RDiv(s["W_total"], s["Q_67"])] @@ s)

\* lines 361-373: the efficiencies; W_gas / Q_67 divides Python floats
efficiencies(s) ==
    IF s["Q_67"][1] = 0 THEN Raise(s, "ZeroDivisionError")
    ELSE exergy_efficiencies(thermal_efficiencies(s))

\* lines 375-432: the two pie charts
draw_pies(r, pie_rejects_negative) ==
    IF r.exc = "None" /\ pie_rejects_negative /\ negative_wedge(r.s)
    THEN Raise(r.s, "ValueError")
    ELSE r

\* lines 325-432, reached once h_2 is read
balances_from_W_12(s, pie_rejects_negative) ==
    IF "h_2" \notin DOMAIN s THEN Raise(s, "AttributeError")
    ELSE draw_pies(efficiencies(balance_terms(s)), pie_rejects_negative)

\* lines 323-432, reached once h_8 is read
balances_from_W_78(s, pie_rejects_negative) ==
    IF "h_8" \notin DOMAIN s THEN Raise(s, "AttributeError")
    ELSE balances_from_W_12(balance_W_78(s), pie_rejects_negative)

\* the whole method; a missing attribute raises AttributeError at the first
\* statement that reads it
calc_energy_exergy_balances(s, pie_rejects_negative) ==
    IF "h_6" \notin DOMAIN s THEN Raise(s, "AttributeError")
    ELSE balances_from_W_78(balance_W_56(s), pie_rejects_negative)

----------------------------------------------------------------------------
(* calc_hrsg_pinch_point (main.py 648-696).                                *)

\* the straight line through (0, y0) and (1, y1), followed beyond both ends
np_interp_linear(x, y0, y1) ==
    IF ~ IsNum(x) THEN NaN ELSE RAdd(y0, RMul(x, RSub(y1, y0)))

\* np.interp(x, [0, 1], [y0, y1]): clamped to the end values outside [0, 1]
np_interp(x, y0, y1) ==
    IF x = NaN THEN NaN
    ELSE IF XLe(x, I(0)) THEN y0
    ELSE IF XLe(I(1), x) THEN y1
    ELSE RAdd(y0, RMul(x, RSub(y1, y0)))

\* line 670: x_steam, the share of the heat transferred where the steam has
\* enthalpy h_steam; numpy floats
x_steam(s, h_steam) ==
    NpDiv(RSub(h_steam, s["h_2"]), RSub(s["h_3"], s["h_2"]))

\* lines 672-673
saturation_enthalpies(s) ==
    [h_sat_wet |-> PropsSI("H", "P", s["p_2"], "Q", I(0), s["steam_fluid"]),
     h_sat_dry |-> PropsSI("H", "P", s["p_2"], "Q", I(1), s["steam_fluid"])]
        @@ s

\* gas temperature minus T_sat, nan when the gas temperature is
gas_above_saturation(T_gas, T_sat) ==
    IF T_gas = NaN THEN NaN ELSE RSub(T_gas, T_sat)

\* line 681: the temperature difference where the steam starts to boil
dT_wet(s) ==
    gas_above_saturation(
        np_interp(x_steam(s, s["h_sat_wet"]), s["T_9"], s["T_8"]),
        PropsSI("T", "P", s["p_2"], "Q", I(0), s["steam_fluid"]))

\* the pinch taken as the larger of the two candidates
pinch_of_max(dT_hot_hrsg, dT_wet_) ==
    IF XLt(dT_wet_, dT_hot_hrsg) THEN dT_hot_hrsg ELSE dT_wet_

\* lines 682-687: the branch that assigns T_pinch
pinch_of(dT_hot_hrsg, dT_wet_) ==
    IF XLt(dT_hot_hrsg, dT_wet_) THEN dT_hot_hrsg ELSE dT_wet_

\* lines 681-687
pinch_point(s) == [T_pinch |-> pinch_of(s["dT_hot_hrsg"], dT_wet(s))] @@ s

calc_hrsg_pinch_point(s) ==
    IF "T_9" \notin DOMAIN s THEN Raise(s, "AttributeError")
    ELSE Ok(pinch_point(saturation_enthalpies(s)))

----------------------------------------------------------------------------
(* The configurations explored.                                            *)

MaxHeat == 2
MaxFlow == 2
MaxLimit == 2
MaxQuality == 1

NoKwargs == [k \in {} |-> I(0)]

\* process-limit keyword arguments: none; the two documented names max_T7
\* and max_T3; the attribute names with every limit tightened; every limit
\* relaxed
limit_kwargs(lim) ==
    CASE lim = 0 -> NoKwargs
      [] lim = 1 -> [max_T7 |-> I(900), max_T3 |-> I(500)]
      [] lim = 2 -> [max_t7 |-> I(900), max_t3 |-> I(500),
                     min_x4 |-> <<19, 20>>, max_p_hrsg_steam |-> I(101325),
                     min_p_cond |-> I(101325)]
      [] OTHER -> [max_t7 |-> I(5000), max_t3 |-> I(5000),
                   min_x4 |-> I(0 - 2), max_p_hrsg_steam |-> I(20265000),
                   min_p_cond |-> I(1)]

\* a small plant: heat input 0 or (800 heat - 400) J per kg of gas,
\* flows + 1 kg/s of gas and flows kg/s of steam; gas machines of isentropic
\* efficiency 1/2 (quality 0) or 1, and a gas turbine that expands
\* 2^(quality + 1) times
scenario(heat, flows, lim, quality) ==
    [T_5 |-> I(300), p_1 |-> <<101325, 2>>, T_1 |-> I(300),
     m_dot_gas |-> I(flows + 1), m_dot_steam |-> I(flows),
     Q_67 |-> IF heat = 0 THEN I(0)
              ELSE I((800 * heat - 400) * (flows + 1)),
     r_p_comp |-> I(2), r_p_turb |-> I(2 ^ (quality + 1)),
     r_p_pump |-> I(4),
     n_c_gas |-> IF quality = 0 THEN <<1, 2>> ELSE I(1),
     n_t_gas |-> IF quality = 0 THEN <<1, 2>> ELSE I(1),
     n_c_steam |-> <<1, 2>>, n_t_steam |-> <<1, 2>>, hrsg_ua |-> I(8)]
        @@ limit_kwargs(lim)

\* no arguments; every heat input and size of the plant; every set of
\* process limits on the smallest plant; every better set of gas machines on
\* the fired plants
KwargsChoices ==
    {NoKwargs}
        \cup {scenario(heat, flows, 0, 0) :
                 heat \in 0..MaxHeat, flows \in 1..MaxFlow}
        \cup {scenario(heat, 1, lim, 0) :
                 heat \in 0..MaxHeat, lim \in 1..MaxLimit}
        \cup {scenario(heat, flows, 0, quality) :
                 heat \in 1..MaxHeat, flows \in 1..MaxFlow,
                 quality \in 1..MaxQuality}

\* the stand-in water has a saturation line below 3 atm only; configurations
\* that pump beyond it (the class defaults do) are constructed, not solved
InProviderRange(s) ==
    RLt(RMul(s["p_1"], s["r_p_pump"]), I(3 * 101325))

----------------------------------------------------------------------------
(* The state machine: an instance constructed from keyword arguments, then *)
(* any sequence of method calls.                                           *)

\* the value of a method that ends without a return statement
None == [type |-> "NoneType", items |-> <<>>]

Init ==
    /\ kwargs \in KwargsChoices
    /\ self = attrs_from_kwargs_or_default(kwargs)
    /\ last = "__init__"
    /\ raised = "None"
    /\ returned = None
    /\ emitted = <<>>

\* the method leaves with the attributes and the exception of r
Leave(r) ==
    /\ self' = r.s
    /\ raised' = r.exc

\* calc_states from the fsolve call on, r being the outcome of lines 161-201
calc_states_from_fsolve(r) ==
    IF r.exc # "None"
    THEN /\ Leave(r)
         /\ emitted' = <<>>
    ELSE \E v \in fsolve(r.s) :
             /\ Leave(Ok(after_fsolve(r.s, v)))
             /\ emitted' = check_limits(self')

CalcStates ==
    /\ InProviderRange(self)
    /\ calc_states_from_fsolve(before_fsolve(self))
    /\ last' = "calc_states"
    /\ returned' = None
    /\ UNCHANGED kwargs

CalcEnergyExergyBalances ==
    /\ \E pie_rejects_negative \in BOOLEAN :
          Leave(calc_energy_exergy_balances(self, pie_rejects_negative))
    /\ last' = "calc_energy_exergy_balances"
    /\ returned' = None
    /\ UNCHANGED <<kwargs, emitted>>

CalcHrsgPinchPoint ==
    /\ Leave(calc_hrsg_pinch_point(self))
    /\ last' = "calc_hrsg_pinch_point"
    /\ returned' = None
    /\ UNCHANGED <<kwargs, emitted>>

Next ==
    \/ CalcStates
    \/ CalcEnergyExergyBalances
    \/ CalcHrsgPinchPoint

Spec == Init /\ [][Next]_vars

----------------------------------------------------------------------------
(* Properties.                                                             *)

\* calc_states ran last and returned normally
SolvedNow == last = "calc_states" /\ raised = "None"

\* the triple fsolve returned, as stored
stored_triple == <<self["Q_23"], self["T_3"], self["T_9"]>>

RAbs(a) == IF a[1] < 0 THEN RNeg(a) ELSE a

\* xtol of line 219, read as the bound on the residuals
hrsg_tol == R(1, 1000000)

Elems(q) == {q[i] : i \in 1..Len(q)}

\* C1: calc_states never completes normally with an unaccepted HRSG
\* solution: after every normal completion both temperature approaches,
\* dT_hot_hrsg = T_8 - T_3 and dT_cold_hrsg = T_9 - T_2, are strictly
\* positive.
C1_ApproachesPositive ==
    SolvedNow => /\ RGt(self["dT_hot_hrsg"], I(0))
                 /\ RGt(self["dT_cold_hrsg"], I(0))

\* C2: after calc_states the stored triple (Q_23, T_3, T_9) zeroes the three
\* HRSG residuals within tolerance: the two energy balances, and the
\* heat-exchanger relation Q_23 = F UA LMTD.
C2_ResidualsVanish ==
    SolvedNow => /\ RLe(RAbs(hrsg_eq2(self, stored_triple)), hrsg_tol)
                 /\ RLe(RAbs(hrsg_eq3(self, stored_triple)), hrsg_tol)
                 /\ hrsg_eq1_can_vanish(self, stored_triple)

\* C3: each of the five process-limit warnings is emitted by calc_states if
\* and only if its own comparison holds on the completed state, whatever the
\* other four are.
C3_LimitsFlaggedIndependently ==
    SolvedNow =>
        /\ ("Gas turbine inlet temperature" \in Elems(emitted))
              <=> RGt(self["T_7"], self["max_t7"])
        /\ ("Steam turbine inlet temperature" \in Elems(emitted))
              <=> RGt(self["T_3"], self["max_t3"])
        /\ ("Steam turbine outlet dryness fraction" \in Elems(emitted))
              <=> RLt(self["x_4"], self["min_x4"])
        /\ ("Steam pressure in HRSG" \in Elems(emitted))
              <=> RGt(self["p_3"], self["max_p_hrsg_steam"])
        /\ ("Condenser pressure" \in Elems(emitted))
              <=> RLt(self["p_4"], self["min_p_cond"])

\* a solved state that breaks the quality limit alone and draws exactly the
\* erosion warning
C3_Witness ==
    /\ SolvedNow
    /\ emitted = <<"Steam turbine outlet dryness fraction">>
    /\ RLt(self["x_4"], self["min_x4"])
    /\ ~ RGt(self["T_7"], self["max_t7"])
    /\ ~ RGt(self["T_3"], self["max_t3"])

\* C4: the safety-limit violations of a solve are handed to the caller as
\* part of its output, a list of the violations, not only logged.
C4_ViolationsReturned ==
    SolvedNow => /\ returned.type = "list"
                 /\ returned.items = emitted

----------------------------------------------------------------------------
(* Properties of the exergy accounting.                                    *)

\* calc_energy_exergy_balances ran last and got past its assignments of the
\* powers, exergy flows and losses
BalancedNow ==
    last = "calc_energy_exergy_balances"
        /\ raised \in {"None", "ValueError", "ZeroDivisionError"}

\* calc_energy_exergy_balances ran last and stored all nine efficiencies
EfficienciesNow ==
    last = "calc_energy_exergy_balances" /\ raised \in {"None", "ValueError"}

\* ex = (h - T0 s) - (h0 - T0 s0) at the dead state of the fluid
exergy_by_definition(h, s, fluid) ==
    RSub(RSub(h, RMul(T_0, s)),
         RSub(PropsSI("H", "T", T_0, "P", p_0, fluid),
              RMul(T_0, PropsSI("S", "T", T_0, "P", p_0, fluid))))

\* C5: every specific exergy is (h - T0 s) - (h0 - T0 s0): the nine stored
\* ex_n of a solved state, and specific_exergy_at_state at the gas outlet
\* temperature T_9 and atmospheric pressure, the one state the balances ask
\* it for.
C5_ExergyFormula ==
    SolvedNow =>
        /\ \A n \in 1..9 :
              self["ex_" \o ToString(n)] =
                  exergy_by_definition(self["h_" \o ToString(n)],
                                       self["s_" \o ToString(n)],
                                       point_fluid(self, n))
        /\ specific_exergy_at_state(I(101325), self["T_9"], self["gas_fluid"])
              = exergy_by_definition(
                    PropsSI("H", "T", self["T_9"], "P", I(101325),
                            self["gas_fluid"]),
                    PropsSI("S", "T", self["T_9"], "P", I(101325),
                            self["gas_fluid"]),
                    self["gas_fluid"])

\* mass flow x T0 x entropy generation from s_a to s_b
destruction(m_dot, s_a, s_b) == RMul(RMul(m_dot, T_0), RSub(s_b, s_a))

\* C6: each stored exergy destruction equals mass flow x T0 x entropy
\* generation across its component, with the T0 that the stored ex_n use.
C6_DestructionAtDeadState ==
    BalancedNow =>
        /\ self["W_56_loss"]
              = destruction(self["m_dot_gas"], self["s_5"], self["s_6"])
        /\ self["W_78_loss"]
              = destruction(self["m_dot_gas"], self["s_7"], self["s_8"])
        /\ self["W_12_loss"]
              = destruction(self["m_dot_steam"], self["s_1"], self["s_2"])
        /\ self["W_34_loss"]
              = destruction(self["m_dot_steam"], self["s_3"], self["s_4"])
        /\ self["hrsg_loss"]
              = RAdd(destruction(self["m_dot_steam"], self["s_2"], self["s_3"]),
                     destruction(self["m_dot_gas"], self["s_8"], self["s_9"]))

\* the five exergy destructions the balances store
stored_destructions ==
    {self["W_56_loss"], self["W_78_loss"], self["hrsg_loss"],
     self["W_12_loss"], self["W_34_loss"]}

\* C7: calc_energy_exergy_balances never leaves a negative exergy
\* destruction among the stored results.
C7_NoNegativeDestructionStored ==
    BalancedNow => \A w \in stored_destructions : RSign(w) >= 0

\* exergy efficiency >= thermal efficiency whenever the maximum-possible
\* thermal efficiency is <= 1
ex_at_least_th(eta_th, eta_th_max, eta_ex) ==
    XLe(eta_th_max, I(1)) => XLe(eta_th, eta_ex)

\* the same for a leg that delivers power from a positive share of the heat
\* as exergy
ex_at_least_th_delivering(eta_th, eta_th_max, eta_ex) ==
    (XLt(I(0), eta_th_max) /\ XLe(eta_th_max, I(1)) /\ XLe(I(0), eta_th))
        => XLe(eta_th, eta_ex)

\* C8 as stated: for the gas leg, the steam leg and the plant, the exergy
\* efficiency is at least the thermal efficiency whenever the
\* maximum-possible thermal efficiency is at most 1, negative net power
\* included.
C8_ExergyAtLeastThermal ==
    EfficienciesNow =>
        /\ ex_at_least_th(self["eta_gas_th"], self["eta_gas_th_max"],
                          self["eta_gas_ex"])
        /\ ex_at_least_th(self["eta_steam_th"], self["eta_steam_th_max"],
                          self["eta_steam_ex"])
        /\ ex_at_least_th(self["eta_th"], self["eta_th_max"], self["eta_ex"])

\* C8 amended: for the gas leg, the steam leg and the plant, the exergy
\* efficiency is at least the thermal efficiency whenever the
\* maximum-possible thermal efficiency lies in (0, 1] and the thermal
\* efficiency is not negative.
C8_ExergyAtLeastThermalWhenDelivering ==
    EfficienciesNow =>
        /\ ex_at_least_th_delivering(self["eta_gas_th"],
                                     self["eta_gas_th_max"],
                                     self["eta_gas_ex"])
        /\ ex_at_least_th_delivering(self["eta_steam_th"],
                                     self["eta_steam_th_max"],
                                     self["eta_steam_ex"])
        /\ ex_at_least_th_delivering(self["eta_th"], self["eta_th_max"],
                                     self["eta_ex"])

\* balances of a plant whose three legs all deliver power, each with an
\* exergy efficiency strictly above its thermal efficiency
C8_Witness ==
    /\ EfficienciesNow
    /\ \A leg \in {"eta_gas", "eta_steam", "eta"} :
          /\ XLt(I(0), self[leg \o "_th_max"])
          /\ XLe(self[leg \o "_th_max"], I(1))
          /\ XLt(I(0), self[leg \o "_th"])
          /\ XLt(self[leg \o "_th"], self[leg \o "_ex"])

----------------------------------------------------------------------------
(* Properties of the pinch point.                                          *)

\* calc_hrsg_pinch_point ran last and returned normally
PinchNow == last = "calc_hrsg_pinch_point" /\ raised = "None"

----------------------------------------------------------------------------
(* Properties of construction.                                             *)

\* the Arguments section of the __init__ docstring (main.py 103-130): each
\* documented parameter name, the attribute the methods read for it, and its
\* documented default
documented_arguments ==
    { <<"p_5", "p_5", I(101325)>>,
      <<"T_5", "T_5", <<5863, 20>> >>,
      <<"p_1", "p_1", I(4053)>>,
      <<"T_1", "T_1", I(280)>>,
      <<"gas_fluid", "gas_fluid", "air">>,
      <<"m_dot_gas", "m_dot_gas", <<10559, 10>> >>,
      <<"steam_fluid", "steam_fluid", "water">>,
      <<"m_dot_steam", "m_dot_steam", <<1503, 10>> >>,
      <<"Q_67", "Q_67", I(1045300000)>>,
      <<"r_p_comp", "r_p_comp", I(23)>>,
      <<"r_p_turb", "r_p_turb", <<104593, 5000>> >>,
      <<"r_p_pump", "r_p_pump", I(1000)>>,
      <<"n_c_gas", "n_c_gas", <<17, 20>> >>,
      <<"n_t_gas", "n_t_gas", <<17, 20>> >>,
      <<"n_c_steam", "n_c_steam", <<17, 20>> >>,
      <<"n_t_steam", "n_t_steam", <<4, 5>> >>,
      <<"hrsg_f", "hrsg_f", I(1)>>,
      <<"hrsg_ua", "hrsg_ua", <<15151907, 2>> >>,
      <<"max_T7", "max_t7", I(1873)>>,
      <<"max_T3", "max_t3", I(893)>> }

\* the gas inlet temperature of the default scenario, 298.15 K
default_scenario_T_5 == <<5963, 20>>

\* C10: after construction every configuration field holds the value the
\* caller passed under its documented parameter name, and otherwise its
\* documented default; every field is documented; and with no arguments the
\* gas inlet temperature is 298.15 K.
C10_DocumentedConfiguration ==
    last = "__init__" =>
        /\ \A d \in documented_arguments :
              self[d[2]] = IF d[1] \in DOMAIN kwargs THEN kwargs[d[1]]
                           ELSE d[3]
        /\ DOMAIN self = {d[2] : d \in documented_arguments}
        /\ kwargs = NoKwargs => self["T_5"] = default_scenario_T_5

----------------------------------------------------------------------------
(* Properties across calls: a caller that changes the configuration of an  *)
(* instance between calls.                                                 *)

\* heat input of 0 or (800 heat - 400) J per kg of gas
heat_input(heat, m_dot_gas) ==
    IF heat = 0 THEN I(0) ELSE RMul(I(800 * heat - 400), m_dot_gas)

\* the caller, having read the balances, assigns a larger heat input to the
\* public attribute Q_67
SetQ_67 ==
    /\ last = "calc_energy_exergy_balances"
    /\ raised = "None"
    /\ \E heat \in 1..MaxHeat :
          /\ RLt(self["Q_67"], heat_input(heat, self["m_dot_gas"]))
          /\ self' = [self EXCEPT
                         !["Q_67"] = heat_input(heat, self["m_dot_gas"])]
    /\ last' = "__setattr__"
    /\ raised' = "None"
    /\ returned' = None
    /\ UNCHANGED <<kwargs, emitted>>

\* the smallest fired plant
InitReconfigured ==
    /\ kwargs = scenario(1, 1, 0, 0)
    /\ self = attrs_from_kwargs_or_default(kwargs)
    /\ last = "__init__"
    /\ raised = "None"
    /\ returned = None
    /\ emitted = <<>>

NextReconfigured ==
    \/ CalcStates
    \/ CalcEnergyExergyBalances
    \/ CalcHrsgPinchPoint
    \/ SetQ_67

SpecReconfigured == InitReconfigured /\ [][NextReconfigured]_vars

\* the balance attributes of the gas leg, which depend on the state points
\* 5 to 8 and on Q_67 alone
gas_balance_attributes ==
    {"W_56", "W_78", "W_gas", "Ex_67", "W_56_loss", "W_78_loss",
     "eta_gas_th", "eta_gas_th_max", "eta_gas_ex"}

\* C11: the balance attributes are never stale: whenever calc_states has
\* completed, every balance attribute of the gas leg present on the object
\* equals the value calc_energy_exergy_balances derives from the state
\* points and heat input now stored.
C11_BalanceNeverStale ==
    SolvedNow =>
        \A k \in gas_balance_attributes \cap DOMAIN self :
            self[k] = calc_energy_exergy_balances(self, FALSE).s[k]

\* the configuration fields: the attributes __init__ sets
configuration_fields == DOMAIN attrs_from_kwargs_or_default(NoKwargs)

\* the three methods of the solver
solver_methods ==
    {"calc_states", "calc_energy_exergy_balances", "calc_hrsg_pinch_point"}

\* C12: the configuration is read-only to the solver: no call of
\* calc_states, calc_energy_exergy_balances or calc_hrsg_pinch_point,
\* whether it returns or raises, changes any configuration field.
C12_ConfigurationReadOnly ==
    [][last' \in solver_methods =>
          \A k \in configuration_fields : self'[k] = self[k]]_vars

\* all three methods have run, calc_states once more after the other two,
\* and the configuration is the constructed one
C12_Witness ==
    /\ SolvedNow
    /\ {"eta_ex", "T_pinch"} \subseteq DOMAIN self
    /\ \A k \in configuration_fields :
          self[k] = attrs_from_kwargs_or_default(kwargs)[k]

\* the attributes a real point n is to hold: p, T, h, s, ex, and x at the
\* steam points
point_attributes(n) ==
    {sym \o "_" \o ToString(n) : sym \in {"p", "T", "h", "s", "ex"}}
        \cup (IF n \in 1..4 THEN {"x_" \o ToString(n)} ELSE {})

\* the ideal points: name, downstream pressure, upstream entropy, fluid
ideal_points ==
    {<<"6s", "p_6", "s_5", "gas_fluid">>, <<"8s", "p_8", "s_7", "gas_fluid">>,
     <<"2s", "p_2", "s_1", "steam_fluid">>,
     <<"4s", "p_4", "s_3", "steam_fluid">>}

\* the ideal point i holds the state at its downstream pressure and the
\* entropy of its upstream real point
ideal_point_isentropic(i) ==
    /\ {"h_" \o i[1], "T_" \o i[1]} \subseteq DOMAIN self
    /\ self["h_" \o i[1]]
          = PropsSI("H", "P", self[i[2]], "S", self[i[3]], self[i[4]])
    /\ self["T_" \o i[1]]
          = PropsSI("T", "P", self[i[2]], "S", self[i[3]], self[i[4]])

\* C13: after calc_states completes, every real point 1..9 holds p, T, h, s
\* and ex (and x at the steam points 1..4), and every ideal point 2s, 4s,
\* 6s, 8s holds the state at its downstream pressure and the entropy of its
\* upstream real point.
C13_EveryPointComplete ==
    SolvedNow =>
        /\ \A n \in 1..9 : point_attributes(n) \subseteq DOMAIN self
        /\ \A i \in ideal_points : ideal_point_isentropic(i)

\* C14: exergy round trip: after calc_states, for every point n in 1..9,
\* specific_exergy_at_point(n) on the stored h_n and s_n returns exactly the
\* stored ex_n.
C14_ExergyRoundTrip ==
    SolvedNow =>
        \A n \in 1..9 :
            specific_exergy_at_point(self, n) = self["ex_" \o ToString(n)]

\* a second solve of a fired plant with a lossy compressor: the exergies of
\* the points 5, 6 and 7 differ and each is reproduced
C14_Witness ==
    /\ SolvedNow
    /\ "eta_ex" \in DOMAIN self
    /\ RLt(self["ex_5"], self["ex_6"])
    /\ RLt(self["ex_6"], self["ex_7"])
    /\ self["h_6"] # self["h_6s"]
    /\ \A n \in 1..9 :
          specific_exergy_at_point(self, n) = self["ex_" \o ToString(n)]

\* C15: the limit checks run last: whenever calc_states has made its five
\* limit comparisons, the energy/exergy balance and the pinch-point
\* analysis have already been computed.
C15_LimitsCheckedLast ==
    SolvedNow => {"W_56", "T_pinch"} \subseteq DOMAIN self

\* the boiling-onset coordinate X = (h_sat_wet - h_2) / (h_3 - h_2)
onset_X ==
    NpDiv(RSub(self["h_sat_wet"], self["h_2"]),
          RSub(self["h_3"], self["h_2"]))

\* the saturation temperature at p_2
onset_T_sat == PropsSI("T", "P", self["p_2"], "Q", I(0), self["steam_fluid"])

\* the smaller of two candidates as the comparison a < b decides it
smaller_of(a, b) == IF XLt(a, b) THEN a ELSE b

\* the gas temperature on the straight line from T_9 at X = 0 to T_8 at
\* X = 1
gas_T_on_line(X) == RAdd(self["T_9"], RMul(X, RSub(self["T_8"], self["T_9"])))

\* the gas temperature at X: on the line inside [0, 1], T_9 below it, T_8
\* above it
gas_T_clamped(X) ==
    IF XLe(X, I(0)) THEN self["T_9"]
    ELSE IF XLe(I(1), X) THEN self["T_8"]
    ELSE gas_T_on_line(X)

----------------------------------------------------------------------------
(* Properties of the isentropic efficiencies.                              *)

\* an isentropic efficiency in (0, 1]
in_unit_interval(n) == RLt(I(0), n) /\ RLe(n, I(1))

\* lines 167 and 197: the outlet enthalpy of a work-absorbing machine
divided_rise(h_in, h_out_s, n) == RAdd(h_in, RDiv(RSub(h_out_s, h_in), n))

\* lines 184 and 242: the outlet enthalpy of a work-producing machine
multiplied_drop(h_in, h_out_s, n) == RSub(h_in, RMul(RSub(h_in, h_out_s), n))

\* an efficiency in (0, 1] and a non-negative ideal rise from h_in to h_out_s
\* give an actual rise to h_out that is no smaller
absorbs_at_least_ideal(h_in, h_out_s, h_out, n) ==
    (in_unit_interval(n) /\ RLe(h_in, h_out_s)) =>
        RLe(RSub(h_out_s, h_in), RSub(h_out, h_in))

\* an efficiency in (0, 1] and a non-negative ideal drop from h_in to h_out_s
\* give an actual drop to h_out that is no larger
produces_at_most_ideal(h_in, h_out_s, h_out, n) ==
    (in_unit_interval(n) /\ RLe(h_out_s, h_in)) =>
        RLe(RSub(h_in, h_out), RSub(h_in, h_out_s))

\* C17: after calc_states the gas compressor and the steam pump have divided
\* the ideal enthalpy rise by their isentropic efficiency and the gas and
\* steam turbines have multiplied the ideal enthalpy drop by theirs; with an
\* efficiency in (0, 1] and a non-negative ideal work the compressor and the
\* pump absorb at least the ideal work and the turbines deliver at most it.
C17_EfficiencyConvention ==
    SolvedNow =>
        /\ self["h_6"] = divided_rise(self["h_5"], self["h_6s"], self["n_c_gas"])
        /\ self["h_2"] = divided_rise(self["h_1"], self["h_2s"], self["n_c_steam"])
        /\ self["h_8"] = multiplied_drop(self["h_7"], self["h_8s"], self["n_t_gas"])
        /\ self["h_4"] = multiplied_drop(self["h_3"], self["h_4s"], self["n_t_steam"])
        /\ absorbs_at_least_ideal(self["h_5"], self["h_6s"], self["h_6"], self["n_c_gas"])
        /\ absorbs_at_least_ideal(self["h_1"], self["h_2s"], self["h_2"], self["n_c_steam"])
        /\ produces_at_most_ideal(self["h_7"], self["h_8s"], self["h_8"], self["n_t_gas"])
        /\ produces_at_most_ideal(self["h_3"], self["h_4s"], self["h_4"], self["n_t_steam"])

\* a solved plant whose four machines have efficiency 1/2 and a positive
\* ideal work: each compressor absorbs more than the ideal work and each
\* turbine delivers less
C17_Witness ==
    /\ SolvedNow
    /\ self["n_c_gas"] = <<1, 2>> /\ self["n_t_gas"] = <<1, 2>>
    /\ self["n_c_steam"] = <<1, 2>> /\ self["n_t_steam"] = <<1, 2>>
    /\ RLt(RSub(self["h_6s"], self["h_5"]), RSub(self["h_6"], self["h_5"]))
    /\ RLt(RSub(self["h_2s"], self["h_1"]), RSub(self["h_2"], self["h_1"]))
    /\ RLt(RSub(self["h_7"], self["h_8"]), RSub(self["h_7"], self["h_8s"]))
    /\ RLt(RSub(self["h_3"], self["h_4"]), RSub(self["h_3"], self["h_4s"]))
    /\ RLt(I(0), RSub(self["h_6s"], self["h_5"]))
    /\ RLt(I(0), RSub(self["h_2s"], self["h_1"]))
    /\ RLt(I(0), RSub(self["h_7"], self["h_8s"]))
    /\ RLt(I(0), RSub(self["h_3"], self["h_4s"]))

----------------------------------------------------------------------------
(* Properties of the energy account.                                       *)

\* line 381: the three shares of the energy pie, added up
energy_outputs ==
    RAdd(RAdd(self["W_total"],
              RMul(self["m_dot_gas"], RSub(self["h_9"], self["h_5"]))),
         self["Q_14"])

\* C18: once calc_energy_exergy_balances has followed calc_states, the heat
\* the gas gives up in the HRSG, the heat the steam takes up, Q_23 and -Q_89
\* are one number, and the combustor heat Q_67 equals the net power plus the
\* exhaust enthalpy plus the condenser heat, whatever triple fsolve returned.
C18_FirstLawClosure ==
    BalancedNow =>
        /\ RMul(self["m_dot_gas"], RSub(self["h_8"], self["h_9"])) = self["Q_23"]
        /\ RMul(self["m_dot_steam"], RSub(self["h_3"], self["h_2"])) = self["Q_23"]
        /\ self["Q_89"] = RNeg(self["Q_23"])
        /\ self["Q_67"] = energy_outputs

\* a fired plant balanced on a triple that is no root of hrsg_equations: the
\* stored h_3 is not the enthalpy of the steam at the stored T_3
C18_Witness ==
    /\ BalancedNow
    /\ raised = "None"
    /\ RLt(I(0), self["Q_67"])
    /\ RLt(I(0), self["Q_23"])
    /\ self["h_3"] # PropsSI("H", "P", self["p_2"], "T", self["T_3"], self["steam_fluid"])

====
